---- MODULE Spec2Model ----
(***************************************************************************)
(* A model of aws-capnp: the multipart upload stream of src/src/s3.cpp     *)
(* (MultipartStream) and the SigV4 signing service of src/src/hash.h       *)
(* (AwsService).                                                           *)
(*                                                                         *)
(* The stream is driven by one writer that awaits each call before it     *)
(* issues the next one, as the test does (s3-test.cpp:301-308).  The kj    *)
(* event loop runs every continuation that is ready before it polls for   *)
(* I/O, so a handler and the continuations of promises that are already   *)
(* resolved form one step; a step ends where the code waits for an HTTP   *)
(* response.                                                               *)
(***************************************************************************)
EXTENDS Integers, Sequences, FiniteSets, TLC

\* ------------------------------------------------------------------ bounds

\* bufferSize_ (s3.cpp:180) is 8 MiB; the model scales it down.
BufferSize == 3

\* The largest number of bytes of one write call.
MaxWrite == 4

\* The number of calls (write or end) the writer issues on one stream.
MaxCalls == 3

\* The number of nested write frames the stack holds.
MaxStack == 3

\* ------------------------------------------------------------------ values

\* No ETag header in the response; also the value of a default kj::String.
NoETag == ""

NoError == [kind |-> "none", req |-> 0, code |-> "", message |-> ""]

Error(kind, req) == [kind |-> kind, req |-> req, code |-> "", message |-> ""]

\* KJ_FAIL_REQUIRE(..., code, msg): the exception holds the text of the Code
\* and of the Message element.
S3Error(code, message, req) ==
  [kind |-> "s3error", req |-> req, code |-> code, message |-> message]

\* A response to POST ...?uploads with none of the elements the code looks
\* for; also the body while there is no response.
NoCreateBody ==
  [error |-> FALSE, code |-> "", message |-> "", result |-> FALSE, uploadId |-> ""]

\* A response body with none of the elements the code looks for; also the
\* body of a request that has no response yet.
NoBody == [error |-> FALSE, code |-> "", message |-> "", result |-> FALSE, etag |-> ""]

\* ------------------------------------------------------------------ state

VARIABLES
  buffer,    \* the bytes written to out_ (out_->getArray())
  parts,     \* parts_: sequence of [partNumber_, etag_]
  tasks,     \* tasks_: the requests whose sendPart promise the TaskSet holds
  http,      \* the requests the stream has issued through client_, in order
  call,      \* the writer's pending call
  results,   \* the outcomes of the calls that returned, in order
  written,   \* the number of bytes the writer has passed to write so far
  logged,    \* what taskFailed has logged
  crashed,   \* the process ran out of stack
  upload,    \* the multipart call of the object and the uploadId_ of its stream
  reqs,      \* the calls of AwsService::request, by caller slot
  forwarded, \* the requests passed to proxy_.request, in order
  now,       \* clock_.now(), in seconds
  uuids      \* the number of ids uuid() has handed out

streamVars ==
  <<buffer, parts, tasks, http, call, results, written, logged, crashed, upload>>

signVars == <<reqs, forwarded, now, uuids>>

vars == <<streamVars, signVars>>

NoCall == [op |-> "none", pc |-> "idle", req |-> 0]

\* The part of the state that write, sendPart, complete and finish change.
Bundle == [buffer |-> buffer, parts |-> parts, tasks |-> tasks, http |-> http,
           call |-> call, results |-> results, logged |-> logged,
           crashed |-> crashed]

Install(st) ==
  /\ buffer' = st.buffer
  /\ parts' = st.parts
  /\ tasks' = st.tasks
  /\ http' = st.http
  /\ call' = st.call
  /\ results' = st.results
  /\ logged' = st.logged
  /\ crashed' = st.crashed

Result(op, ok, err, etag) == [op |-> op, ok |-> ok, err |-> err, etag |-> etag]

Return(st, op, ok, err, etag) ==
  [st EXCEPT !.results = Append(@, Result(op, ok, err, etag)), !.call = NoCall]

\* Every part PUT and every commit POST is sent to ...?uploadId=<uploadId_>.
Put(partNumber, body) ==
  [method |-> "PUT", uploadId |-> upload.uploadId_, partNumber |-> partNumber, body |-> body,
   listing |-> <<>>, state |-> "inflight", status |-> 0, etag |-> NoETag,
   reply |-> NoBody]

Post(listing) ==
  [method |-> "POST", uploadId |-> upload.uploadId_, partNumber |-> 0, body |-> <<>>,
   listing |-> listing, state |-> "inflight", status |-> 0, etag |-> NoETag,
   reply |-> NoBody]

\* ------------------------------------------------------------------ sendPart

\* The part number taken before the new part is counted.
PartNumberOf_ZeroBased(ps) == Len(ps) - 1

\* partNumber = parts_.size() after parts_.add().
PartNumberOf(ps) == Len(ps)

\* sendPart up to its first wait: a new part, its number, the PUT request.
sendPart(st, data) ==
  LET added == Append(st.parts, [partNumber_ |-> 0, etag_ |-> NoETag])
      partNumber == PartNumberOf(added)
  IN [st EXCEPT !.parts = [added EXCEPT ![Len(added)].partNumber_ = partNumber],
                !.http = Append(@, Put(partNumber, data))]

\* ------------------------------------------------------------------ complete

\* The <Part> elements of the commit body, in the order of parts_.
CommitListing(ps) ==
  [i \in 1..Len(ps) |-> [partNumber |-> ps[i].partNumber_, etag |-> ps[i].etag_]]

\* complete up to its first wait: the POST request with the commit body.
complete(st) ==
  [st EXCEPT !.http = Append(@, Post(CommitListing(st.parts))),
             !.call = [op |-> "end", pc |-> "commit", req |-> Len(st.http) + 1]]

\* ------------------------------------------------------------------ finish

\* finish that does not wait for the final part before it completes.
FinishFlush_NoWait(st) ==
  IF Len(st.buffer) > 0 THEN complete(sendPart(st, st.buffer)) ELSE complete(st)

\* The continuation of tasks_.onEmpty(): send the partial buffer, if any, wait
\* for that part, then complete.
FinishFlush(st) ==
  IF Len(st.buffer) > 0
  THEN LET sent == sendPart(st, st.buffer)
       IN [sent EXCEPT !.call = [op |-> "end", pc |-> "part", req |-> Len(sent.http)]]
  ELSE complete(st)

\* A finish that sends the buffer as a part whether or not it holds bytes.
finish_AlwaysSend(st) ==
  LET sent == sendPart(st, st.buffer)
  IN [sent EXCEPT !.call = [op |-> "end", pc |-> "part", req |-> Len(sent.http)]]

finish(st) ==
  IF st.tasks = {}
  THEN FinishFlush(st)
  ELSE [st EXCEPT !.call = [op |-> "end", pc |-> "onEmpty", req |-> 0]]

\* ------------------------------------------------------------------ write

\* A write that never splits: the bytes go to the buffer as they come.
NeedsSplit_Never(remaining, size) == FALSE

\* The test that sends write down the splitting branch.
NeedsSplit(remaining, size) == remaining <= size

\* write(bytes), with depth the number of write frames on the stack.  The
\* first slice is written by a nested call; the rest by the continuation,
\* which the event loop calls on its own, shallow stack.
RECURSIVE write(_, _, _)
write(st, bytes, depth) ==
  IF depth > MaxStack THEN [st EXCEPT !.crashed = TRUE]
  ELSE IF Len(bytes) = 0 THEN st
  ELSE
    LET remaining == BufferSize - Len(st.buffer) IN
    IF NeedsSplit(remaining, Len(bytes))
    THEN LET first == write(st, SubSeq(bytes, 1, remaining), depth + 1)
         IN IF first.crashed
            THEN first
            ELSE write(first, SubSeq(bytes, remaining + 1, Len(bytes)), 1)
    ELSE LET filled == [st EXCEPT !.buffer = @ \o bytes] IN
         IF Len(bytes) = remaining
         THEN LET sent == sendPart(filled, filled.buffer)
              IN [sent EXCEPT !.tasks = @ \cup {Len(sent.http)},
                              !.buffer = <<>>]
         ELSE filled

\* write(pieces): the empty pieces at the front are dropped, the first piece
\* is written, and the continuation writes the rest the same way.
RECURSIVE writePieces(_, _)
writePieces(st, pieces) ==
  IF Len(pieces) = 0 THEN st
  ELSE IF Len(pieces[1]) = 0 THEN writePieces(st, Tail(pieces))
  ELSE LET first == write(st, pieces[1], 1)
       IN IF first.crashed THEN first ELSE writePieces(first, Tail(pieces))

\* ------------------------------------------------------------------ AwsService

\* The number of calls of AwsService::request in one run.
MaxReqs == 2

\* The last reading of the clock.
MaxClock == 1

\* The length of a day in seconds, scaled down.
SecondsPerDay == 1

\* The answer of a provider that has no credentials: getCredentials sets
\* only the fields it finds in the environment.
EmptyCredentials == [accessKey |-> "", secretKey |-> "", sessionToken |-> ""]

\* What the credentials provider may answer.
Credentials ==
  {[accessKey |-> "AK1", secretKey |-> "SK1", sessionToken |-> ""],
   [accessKey |-> "AK2", secretKey |-> "SK2", sessionToken |-> "tok"],
   EmptyCredentials}

\* No answer of the provider yet.
NoCredentials == [accessKey |-> "none", secretKey |-> "none", sessionToken |-> "none"]

region_ == "eu-west-1"

service_ == "s3"

\* scope_, set by the constructor.
scope_ == <<"/", region_, "/", service_, "/aws4_request">>

\* The list of signed header names without host.
signedHeaders_NoHost ==
  <<"amz-sdk-invocation-id", "amz-sdk-request", "x-amz-content-sha256", "x-amz-date">>

signedHeaders ==
  <<"amz-sdk-invocation-id", "amz-sdk-request", "host", "x-amz-content-sha256", "x-amz-date">>

EMPTY_STRING_SHA256 == "e3b0c44298fc1c149afbf4c8996fb92427ae41e4649b934ca495991b7852b855"

UNSIGNED_PAYLOAD == "UNSIGNED-PAYLOAD"

\* The headers a caller may pass: with Host; with Host, a header x-amz-acl of
\* its own and its own values for the headers the service stamps (an id of
\* its own, the date of the day before the clock starts); without Host.
HostOnly == [n \in {"host"} |-> "b.s3"]

StaleHeaders ==
  ("host" :> "b.s3" @@ "amz-sdk-invocation-id" :> 0 @@ "amz-sdk-request" :> "attempt=9"
     @@ "x-amz-date" :> [day |-> -1, sec |-> 0] @@ "x-amz-content-sha256" :> "stale"
     @@ "x-amz-security-token" :> "old" @@ "x-amz-acl" :> "private")

NoHost == [n \in {"accept"} |-> "*/*"]

\* URLs as kj::Url::parse returns them: the path segments and the query
\* parameters in the order of the text.
RootUrl == [host |-> "b.s3", path |-> <<>>, query |-> <<>>]

\* A listing of a bucket: https://b.s3/?prefix=a&delimiter=%2F
ListUrl ==
  [host |-> "b.s3", path |-> <<>>,
   query |-> <<[name |-> "prefix", value |-> "a"], [name |-> "delimiter", value |-> "/"]>>]

\* A part of the object whose key is "a b":
\* https://b.s3/a%20b?partNumber=1&uploadId=u
PartUrl ==
  [host |-> "b.s3", path |-> <<"a b">>,
   query |-> <<[name |-> "partNumber", value |-> "1"], [name |-> "uploadId", value |-> "u"]>>]

\* The result of body.tryGetLength(): unknown, or a known length.
UnknownLength == [known |-> FALSE, n |-> 0]

KnownLength(n) == [known |-> TRUE, n |-> n]

\* SHA-256 and HMAC-SHA256 as free constructors: equal digests, equal inputs.
Sha256(data) == <<"sha256", data>>

Hmac(key, data) == <<"hmac", key, data>>

encodeHex(bytes) == <<"hex", bytes>>

\* headers.set(id, value)
SetHeader(headers, name, value) ==
  [n \in DOMAIN headers \cup {name} |-> IF n = name THEN value ELSE headers[n]]

\* dateStr(date, "%Y%m%dT%H%M%SZ"): the day and the second of the day.
dateStr(date) == [day |-> date \div SecondsPerDay, sec |-> date % SecondsPerDay]

\* ds.slice(0, 8)
Ymd(ds) == ds.day

\* The name KJ_IF_MAYBE(length, body.tryGetLength()) binds: a pointer to the
\* length, null when the length is unknown.
LengthPtr(body) == IF body.known THEN "nonnull" ELSE "null"

\* The content hash.  Inside the KJ_IF_MAYBE block, which runs for a known
\* length only, `length == 0u` compares the pointer with the null pointer
\* constant, not the length with zero.
ContentHash(body) ==
  IF body.known /\ LengthPtr(body) = "null" THEN EMPTY_STRING_SHA256 ELSE UNSIGNED_PAYLOAD

\* The session token set whether or not the credentials have one.
SetSecurityToken_Always(headers, sessionToken) ==
  SetHeader(headers, "x-amz-security-token", sessionToken)

\* if (sessionToken.size()) headers.set(ids_.xAmzSecurityToken, sessionToken)
SetSecurityToken(headers, sessionToken) ==
  IF sessionToken # "" THEN SetHeader(headers, "x-amz-security-token", sessionToken)
  ELSE headers

\* The stamping that takes the date from the reading the service made last,
\* for whichever request, instead of the reading made for this request.
Stamp_SharedDate(requestHeaders, id, ds, contentHash, sessionToken) ==
  LET h1 == SetHeader(requestHeaders, "amz-sdk-invocation-id", id)
      h2 == SetHeader(h1, "amz-sdk-request", "attempt=1")
      h3 == SetHeader(h2, "x-amz-date", dateStr(now))
      h4 == SetHeader(h3, "x-amz-content-sha256", contentHash)
  IN SetSecurityToken(h4, sessionToken)

\* The stamping that leaves amz-sdk-request as the caller passed it.
Stamp_KeepAttempt(requestHeaders, id, ds, contentHash, sessionToken) ==
  LET h1 == SetHeader(requestHeaders, "amz-sdk-invocation-id", id)
      h3 == SetHeader(h1, "x-amz-date", ds)
      h4 == SetHeader(h3, "x-amz-content-sha256", contentHash)
  IN SetSecurityToken(h4, sessionToken)

\* The headers stamped on the clone of the caller's headers.
Stamp(requestHeaders, id, ds, contentHash, sessionToken) ==
  LET h1 == SetHeader(requestHeaders, "amz-sdk-invocation-id", id)
      h2 == SetHeader(h1, "amz-sdk-request", "attempt=1")
      h3 == SetHeader(h2, "x-amz-date", ds)
      h4 == SetHeader(h3, "x-amz-content-sha256", contentHash)
  IN SetSecurityToken(h4, sessionToken)

\* The header lines hashed with host first.
HashedHeaders_HostFirst ==
  <<"host", "amz-sdk-invocation-id", "amz-sdk-request", "x-amz-content-sha256", "x-amz-date">>

\* The headers hashRequest reads and hashes, in the order of its hashHeader
\* calls.
HashedHeaders ==
  <<"amz-sdk-invocation-id", "amz-sdk-request", "host", "x-amz-content-sha256", "x-amz-date">>

\* hashRequest throws unless every header it reads is present.
CanHash(headers) == \A i \in DOMAIN HashedHeaders : HashedHeaders[i] \in DOMAIN headers

\* What hashRequest feeds to SHA-256, line by line: the method, the path (the
\* segments of the parsed URL joined by "/"), the query (the parameters of
\* the parsed URL in their order, joined by "&"), one line for each header,
\* an empty line, the signed header names, the content hash.
CanonicalRequest(method, url, headers) ==
  LET contentHash == headers["x-amz-content-sha256"] IN
  <<method, <<"/", url.path>>,
    [i \in DOMAIN url.query |-> <<url.query[i].name, "=", url.query[i].value>>],
    [i \in DOMAIN HashedHeaders |->
       <<HashedHeaders[i], ":",
         IF HashedHeaders[i] = "x-amz-content-sha256" THEN contentHash
         ELSE headers[HashedHeaders[i]]>>],
    "",
    signedHeaders,
    contentHash>>

\* hashRequest: the hex SHA-256 of the canonical request.
hashRequest(method, url, headers) ==
  encodeHex(Sha256(CanonicalRequest(method, url, headers)))

\* The string to sign whose scope line lacks the date.
StringToSign_ScopeOnly(ds, requestHash) ==
  <<"AWS4-HMAC-SHA256", ds, <<scope_>>, requestHash>>

\* The string to sign.
StringToSign(ds, requestHash) ==
  <<"AWS4-HMAC-SHA256", ds, <<Ymd(ds), scope_>>, requestHash>>

\* The signature whose key chain takes the service before the region.
Signature_ServiceFirst(secretKey, ds, requestHash) ==
  LET signingKey == <<"AWS4", secretKey>>
      h1 == Hmac(signingKey, Ymd(ds))
      h2 == Hmac(h1, service_)
      h3 == Hmac(h2, region_)
      h4 == Hmac(h3, "aws4_request")
  IN encodeHex(Hmac(h4, StringToSign(ds, requestHash)))

\* The signature lambda of request.
Signature(secretKey, ds, requestHash) ==
  LET signingKey == <<"AWS4", secretKey>>
      h1 == Hmac(signingKey, Ymd(ds))
      h2 == Hmac(h1, region_)
      h3 == Hmac(h2, service_)
      h4 == Hmac(h3, "aws4_request")
  IN encodeHex(Hmac(h4, StringToSign(ds, requestHash)))

\* The Authorization value whose scope names the day the service was built.
AuthTxt_FirstDay(accessKey, ds, signature) ==
  [credential |-> <<accessKey, Ymd(dateStr(0)), scope_>>, signedHeaders |-> signedHeaders,
   signature |-> signature]

\* The Authorization value built with the access key of an earlier answer.
AuthTxt_Cached(accessKey, ds, signature) ==
  [credential |-> <<"AK1", Ymd(ds), scope_>>, signedHeaders |-> signedHeaders,
   signature |-> signature]

\* authTxt
AuthTxt(accessKey, ds, signature) ==
  [credential |-> <<accessKey, Ymd(ds), scope_>>, signedHeaders |-> signedHeaders,
   signature |-> signature]

\* A caller that passes headers it has stamped and signed before.
PreStamped ==
  SetHeader(StaleHeaders, "authorization",
            AuthTxt("AK0", StaleHeaders["x-amz-date"],
                    Signature("SK0", StaleHeaders["x-amz-date"],
                              hashRequest("GET", [host |-> "b.s3", path |-> <<>>, query |-> <<>>],
                                          StaleHeaders))))

\* The signature taken over the caller's headers instead of the stamped clone.
HeadersToSign_Caller(requestHeaders, headers) == requestHeaders

\* The headers whose hash is signed.
HeadersToSign(requestHeaders, headers) == headers

\* The stamping done on the caller's own map.
CallerHeaders_InPlace(requestHeaders, headers) == headers

\* The caller's map once request has stamped the clone of it.
CallerHeaders(requestHeaders, headers) == requestHeaders

\* The caller's headers passed on, less what the service has set.
HeadersToForward_Caller(requestHeaders, headers) == requestHeaders

\* The headers passed to proxy_.request.
HeadersToForward(requestHeaders, headers) == headers

\* The calls of AwsService::request the model makes.
Calls ==
  {[method |-> "GET", url |-> ListUrl, headers |-> HostOnly, body |-> KnownLength(0)],
   [method |-> "PUT", url |-> PartUrl, headers |-> PreStamped, body |-> KnownLength(5)],
   [method |-> "GET", url |-> RootUrl, headers |-> NoHost, body |-> UnknownLength]}

\* An id generator that hands out the same id again.
uuid_Repeat(n) == 1

\* uuid(): a random id, the n+1st drawn; random ids do not repeat.
uuid(n) == n + 1

NewRequest == [pc |-> "idle", method |-> "GET", url |-> RootUrl, headers |-> <<>>,
               body |-> UnknownLength, creds |-> NoCredentials, sent |-> 0, at |-> 0,
               fetches |-> 0, status |-> 0]

SignInit ==
  /\ reqs = [r \in 1..MaxReqs |-> NewRequest]
  /\ forwarded = <<>>
  /\ now = 0
  /\ uuids = 0

\* AwsService::request is called: the credentials request is sent.  The
\* callers take the slots in order.
Request(r, c) ==
  /\ reqs[r].pc = "idle"
  /\ \A q \in 1..(r - 1) : reqs[q].pc # "idle"
  /\ reqs' = [reqs EXCEPT ![r] = [@ EXCEPT !.pc = "fetching", !.method = c.method,
                                           !.url = c.url, !.headers = c.headers,
                                           !.body = c.body, !.fetches = @ + 1]]
  /\ UNCHANGED <<forwarded, now, uuids, streamVars>>

\* The credentials request fails: request rejects with the provider's error.
CredentialsFail(r) ==
  /\ reqs[r].pc = "fetching"
  /\ reqs' = [reqs EXCEPT ![r].pc = "rejected"]
  /\ UNCHANGED <<forwarded, now, uuids, streamVars>>

\* The credentials arrive at time t: the continuation of request stamps,
\* signs and forwards.
CredentialsArrive(r, creds, t) ==
  /\ reqs[r].pc = "fetching"
  /\ t >= now
  /\ now' = t
  /\ LET req == reqs[r]
         id == uuid(uuids)
         ds == dateStr(t)
         contentHash == ContentHash(req.body)
         headers == Stamp(req.headers, id, ds, contentHash, creds.sessionToken)
         toSign == HeadersToSign(req.headers, headers)
     IN /\ uuids' = uuids + 1
        /\ IF CanHash(toSign)
           THEN LET signature == Signature(creds.secretKey, ds, hashRequest(req.method, req.url, toSign))
                    signed == SetHeader(headers, "authorization",
                                        AuthTxt(creds.accessKey, ds, signature))
                    out == HeadersToForward(req.headers, signed)
                IN /\ forwarded' = Append(forwarded,
                                     [req |-> r, method |-> req.method, url |-> req.url,
                                      headers |-> out, body |-> req.body])
                   /\ reqs' = [reqs EXCEPT ![r] = [@ EXCEPT !.pc = "forwarded", !.creds = creds, !.at = t,
                                                            !.sent = Len(forwarded) + 1,
                                                            !.headers = CallerHeaders(@, out)]]
           ELSE /\ reqs' = [reqs EXCEPT ![r] = [@ EXCEPT !.pc = "rejected", !.creds = creds,
                                                            !.headers = CallerHeaders(@, headers)]]
                /\ UNCHANGED forwarded
  /\ UNCHANGED streamVars

\* What may come back from proxy_.request: a failure (status 0), or a
\* response that the downstream service has sent to the caller's sink.  The
\* service never reads the response, so one response stands for all of
\* them: 403 with the code RequestTimeTooSkewed.
DownstreamReplies == {0, 403}

\* A request that completes whether proxy_.request completes or fails.
Downstream_Swallow(r, status) ==
  /\ reqs[r].pc = "forwarded"
  /\ reqs' = [reqs EXCEPT ![r].pc = "done", ![r].status = status]
  /\ UNCHANGED <<forwarded, now, uuids, streamVars>>

\* proxy_.request completes or fails; request completes the same way.
Downstream(r, status) ==
  /\ reqs[r].pc = "forwarded"
  /\ reqs' = [reqs EXCEPT ![r].pc = IF status # 0 THEN "done" ELSE "failed",
                           ![r].status = status]
  /\ UNCHANGED <<forwarded, now, uuids, streamVars>>

NextSign ==
  \/ \E r \in 1..MaxReqs, c \in Calls : Request(r, c)
  \/ \E r \in 1..MaxReqs : CredentialsFail(r)
  \/ \E r \in 1..MaxReqs, creds \in Credentials, t \in 0..MaxClock :
       CredentialsArrive(r, creds, t)
  \/ \E r \in 1..MaxReqs, status \in DownstreamReplies : Downstream(r, status)

\* ------------------------------------------------------------------ stream actions

\* No multipart call yet: no stream, no uploadId_.
NoUpload == [state |-> "none", uploadId_ |-> "", reply |-> NoCreateBody, err |-> NoError]

\* ObjectServer::multipart: the POST ...?uploads is sent.
Multipart ==
  /\ upload.state = "none"
  /\ upload' = [upload EXCEPT !.state = "creating"]
  /\ UNCHANGED <<buffer, parts, tasks, http, call, results, written, logged, crashed,
                 signVars>>

\* The bodies a server may answer the POST ...?uploads with, by the
\* top-level elements the code looks for: Error with its Code and Message,
\* InitiateMultipartUploadResult with its UploadId ("" for an element that is
\* not there).
CreateBodies ==
  {[error |-> FALSE, code |-> "", message |-> "", result |-> TRUE, uploadId |-> "u1"],
   [error |-> FALSE, code |-> "", message |-> "", result |-> TRUE, uploadId |-> "u2"],
   [error |-> FALSE, code |-> "", message |-> "", result |-> TRUE, uploadId |-> ""],
   [error |-> TRUE, code |-> "AccessDenied", message |-> "denied", result |-> FALSE, uploadId |-> ""],
   [error |-> TRUE, code |-> "AccessDenied", message |-> "denied", result |-> TRUE, uploadId |-> "u1"],
   NoCreateBody}

\* A parse that reads the result before it looks for Error.
ParseCreate_ResultFirst(body) ==
  IF body.result /\ body.uploadId # "" THEN NoError
  ELSE IF body.error
  THEN IF body.code = "" THEN Error("nocode", 0)
       ELSE IF body.message = "" THEN Error("nomessage", 0)
       ELSE S3Error(body.code, body.message, 0)
  ELSE IF ~body.result THEN Error("noresult", 0)
  ELSE Error("nouploadid", 0)

\* The last continuation of multipart: parse the response body.
ParseCreate(body) ==
  IF body.error
  THEN IF body.code = "" THEN Error("nocode", 0)
       ELSE IF body.message = "" THEN Error("nomessage", 0)
       ELSE S3Error(body.code, body.message, 0)
  ELSE IF ~body.result THEN Error("noresult", 0)
  ELSE IF body.uploadId = "" THEN Error("nouploadid", 0)
  ELSE NoError

\* The response to the POST ...?uploads arrives, or the request fails in
\* transport: multipart returns a stream that holds the UploadId, or rejects.
CreateResponse(failed, body) ==
  /\ upload.state = "creating"
  /\ LET err == IF failed THEN Error("transport", 0) ELSE ParseCreate(body)
     IN upload' = [state |-> IF err = NoError THEN "open" ELSE "rejected",
                   uploadId_ |-> IF err = NoError THEN body.uploadId ELSE "",
                   reply |-> IF failed THEN NoCreateBody ELSE body,
                   err |-> err]
  /\ UNCHANGED <<buffer, parts, tasks, http, call, results, written, logged, crashed,
                 signVars>>

StreamInit ==
  /\ buffer = <<>>
  /\ parts = <<>>
  /\ tasks = {}
  /\ http = <<>>
  /\ call = NoCall
  /\ results = <<>>
  /\ written = 0
  /\ logged = <<>>
  /\ crashed = FALSE
  /\ upload = NoUpload

Init == StreamInit /\ SignInit

CanCall ==
  upload.state = "open" /\ ~crashed /\ call.op = "none" /\ Len(results) < MaxCalls

\* MultipartStream::write(WriteContext): the writer passes n fresh bytes.
Write(n) ==
  /\ CanCall
  /\ LET bytes == [i \in 1..n |-> written + i]
         st == write(Bundle, bytes, 1)
     IN /\ written' = written + n
        /\ UNCHANGED <<upload, signVars>>
        /\ IF st.crashed
           THEN Install(st)
           ELSE Install(Return(st, "write", TRUE, NoError, NoETag))

\* The sizes of the pieces of the vectors the writer passes.
PieceSizes == {<<0, 1>>, <<1, 0, 1>>, <<0, 0>>, <<2, 2>>}

\* The pieces of the given sizes that hold the bytes from..., in order.
RECURSIVE Pieces(_, _)
Pieces(sizes, from) ==
  IF Len(sizes) = 0 THEN <<>>
  ELSE <<[i \in 1..sizes[1] |-> from + i]>> \o Pieces(Tail(sizes), from + sizes[1])

\* The number of bytes of a vector of pieces.
RECURSIVE TotalSize(_)
TotalSize(sizes) == IF Len(sizes) = 0 THEN 0 ELSE sizes[1] + TotalSize(Tail(sizes))

\* MultipartStream::write(pieces): the writer passes fresh bytes as a
\* vector of pieces.
WritePieces(sizes) ==
  /\ CanCall
  /\ LET st == writePieces(Bundle, Pieces(sizes, written))
     IN /\ written' = written + TotalSize(sizes)
        /\ UNCHANGED <<upload, signVars>>
        /\ IF st.crashed
           THEN Install(st)
           ELSE Install(Return(st, "write", TRUE, NoError, NoETag))

\* MultipartStream::end(EndContext).
End ==
  /\ CanCall
  /\ Install(finish(Bundle))
  /\ UNCHANGED <<written, upload, signVars>>

\* What may come back for a part PUT: no response (the request fails in
\* transport, status 0), or a response with a status and maybe an ETag header.
PartReplies ==
  {[status |-> 0, etag |-> NoETag],
   [status |-> 200, etag |-> "e1"],
   [status |-> 200, etag |-> "e2"],
   [status |-> 200, etag |-> NoETag],
   [status |-> 500, etag |-> NoETag],
   [status |-> 500, etag |-> "e1"]}

\* The last continuation of sendPart: the ETag header must be there; the
\* status is not read.
PartError(reply, i) ==
  IF reply.status = 0 THEN Error("transport", i)
  ELSE IF reply.etag = NoETag THEN Error("noetag", i)
  ELSE NoError

\* The ETag stored in the first part of parts_.
EtagSlot_Front(partNumber) == 1

\* parts_[partNumber-1], as an index that counts from 1.
EtagSlot(partNumber) == partNumber

\* The response to a part PUT arrives, or the request fails.
PartResponse(i, reply) ==
  /\ ~crashed
  /\ i \in DOMAIN http
  /\ http[i].method = "PUT"
  /\ http[i].state = "inflight"
  /\ LET err == PartError(reply, i)
         ok == err = NoError
         slot == EtagSlot(http[i].partNumber)
         st0 == [Bundle EXCEPT !.http[i].state = IF ok THEN "done" ELSE "failed",
                               !.http[i].status = reply.status,
                               !.http[i].etag = reply.etag]
         st1 == IF ok /\ slot \in DOMAIN parts
                THEN [st0 EXCEPT !.parts[slot].etag_ = reply.etag]
                ELSE st0
     IN IF i \in tasks
        THEN LET st2 == [st1 EXCEPT !.tasks = @ \ {i},
                                    !.logged = IF ok THEN @ ELSE Append(@, err)]
             IN IF call.pc = "onEmpty" /\ st2.tasks = {}
                THEN Install(FinishFlush(st2))
                ELSE Install(st2)
        ELSE IF ok
             THEN Install(complete(st1))
             ELSE Install(Return(st1, "end", FALSE, err, NoETag))
  /\ UNCHANGED <<written, upload, signVars>>

\* The bodies a server may answer the commit POST with, by the top-level
\* elements the code looks for: Error with its Code and Message,
\* CompleteMultipartUploadResult with its ETag ("" for an element that is
\* not there).
CommitBodies ==
  {[error |-> FALSE, code |-> "", message |-> "", result |-> TRUE, etag |-> "e1"],
   [error |-> FALSE, code |-> "", message |-> "", result |-> TRUE, etag |-> NoETag],
   [error |-> TRUE, code |-> "InternalError", message |-> "retry", result |-> FALSE, etag |-> NoETag],
   [error |-> TRUE, code |-> "", message |-> "retry", result |-> FALSE, etag |-> NoETag],
   [error |-> TRUE, code |-> "InternalError", message |-> "", result |-> FALSE, etag |-> NoETag],
   [error |-> TRUE, code |-> "InternalError", message |-> "retry", result |-> TRUE, etag |-> "e1"],
   NoBody}

\* A parse that reads the result before it looks for Error.
ParseCommit_ResultFirst(body, i) ==
  IF body.result /\ body.etag # NoETag THEN NoError
  ELSE IF body.error
  THEN IF body.code = "" THEN Error("nocode", i)
       ELSE IF body.message = "" THEN Error("nomessage", i)
       ELSE S3Error(body.code, body.message, i)
  ELSE IF ~body.result THEN Error("noresult", i)
  ELSE Error("noetag", i)

\* The last continuation of complete: parse the response body.
ParseCommit(body, i) ==
  IF body.error
  THEN IF body.code = "" THEN Error("nocode", i)
       ELSE IF body.message = "" THEN Error("nomessage", i)
       ELSE S3Error(body.code, body.message, i)
  ELSE IF ~body.result THEN Error("noresult", i)
  ELSE IF body.etag = NoETag THEN Error("noetag", i)
  ELSE NoError

\* The response to the commit POST arrives, or the request fails in transport.
CommitResponse(i, failed, body) ==
  /\ ~crashed
  /\ i \in DOMAIN http
  /\ http[i].method = "POST"
  /\ http[i].state = "inflight"
  /\ LET err == IF failed THEN Error("transport", i) ELSE ParseCommit(body, i)
         ok == err = NoError
         st0 == [Bundle EXCEPT !.http[i].state = IF ok THEN "done" ELSE "failed",
                               !.http[i].reply = IF failed THEN NoBody ELSE body]
     IN Install(Return(st0, "end", ok, err, IF ok THEN body.etag ELSE NoETag))
  /\ UNCHANGED <<written, upload, signVars>>

NextStream ==
  \/ Multipart
  \/ \E failed \in BOOLEAN, body \in CreateBodies : CreateResponse(failed, body)
  \/ \E n \in 0..MaxWrite : Write(n)
  \/ \E sizes \in PieceSizes : WritePieces(sizes)
  \/ End
  \/ \E i \in DOMAIN http, reply \in PartReplies : PartResponse(i, reply)
  \/ \E i \in DOMAIN http, failed \in BOOLEAN, body \in CommitBodies :
       CommitResponse(i, failed, body)

Next == NextStream \/ NextSign

Spec == Init /\ [][Next]_vars

\* The stream alone, and the signing service alone.
SpecStream == Init /\ [][NextStream]_vars

SpecSign == Init /\ [][NextSign]_vars

\* ------------------------------------------------------------------ helpers of the claims

\* The part PUTs the stream has issued, in the order of dispatch.
Puts == SelectSeq(http, LAMBDA q : q.method = "PUT")

\* The commit POSTs the stream has issued.
Posts == {i \in DOMAIN http : http[i].method = "POST"}

\* The end calls made so far, the pending one included.
EndCalls ==
  Cardinality({k \in DOMAIN results : results[k].op = "end"})
    + (IF call.op = "end" THEN 1 ELSE 0)

\* The Authorization value computed over the headers of a forwarded request.
AuthOver(f, creds) ==
  AuthTxt(creds.accessKey, f.headers["x-amz-date"],
          Signature(creds.secretKey, f.headers["x-amz-date"],
                    hashRequest(f.method, f.url, f.headers)))

\* The canonical request that the signature of a forwarded request was taken
\* over: digests are free constructors, so the signature holds its inputs.
SignedCanonical(f) == f.headers["authorization"].signature[2][3][4][2][2]

\* The secret key that the signature of a forwarded request was derived
\* from: the innermost key of the HMAC chain, less its prefix.
SignedSecret(f) == f.headers["authorization"].signature[2][2][2][2][2][2][2]

\* The names of the header lines of a canonical request, in order.
CanonicalNames(canon) == [i \in DOMAIN canon[4] |-> canon[4][i][1]]

\* The elements of a sequence.
Range(seq) == {seq[i] : i \in DOMAIN seq}

\* The lowercase header names of the model, in byte order.
SortedNames ==
  <<"accept", "amz-sdk-invocation-id", "amz-sdk-request", "authorization", "host",
    "x-amz-acl", "x-amz-content-sha256", "x-amz-date", "x-amz-security-token">>

\* The place of each name in that order.
RankOf ==
  [name \in Range(SortedNames) |-> CHOOSE i \in DOMAIN SortedNames : SortedNames[i] = name]

Rank(name) == RankOf[name]

\* The names of the query parameters of the model, in byte order.
SortedQueryNames == <<"delimiter", "partNumber", "prefix", "uploadId">>

QueryRank(name) == CHOOSE i \in DOMAIN SortedQueryNames : SortedQueryNames[i] = name

\* A path segment percent-encoded once: every byte that is not unreserved
\* becomes %XX.
PercentEncode(segment) == IF segment = "a b" THEN "a%20b" ELSE segment

\* The string to sign that the signature of a forwarded request was taken
\* over, and the signing key it was taken with.
SignedString(f) == f.headers["authorization"].signature[2][3]

SigningKey(f) == f.headers["authorization"].signature[2][2]

\* The names that start with x-amz-.
AmzNames == {"x-amz-acl", "x-amz-content-sha256", "x-amz-date", "x-amz-security-token"}

\* ------------------------------------------------------------------ C1

\* C1: a request is forwarded only after its credentials have arrived, and
\* every forwarded request carries the headers the service stamps and an
\* Authorization header that is the signature, under those credentials, of
\* the header values the forwarded request carries.
C1_SignedOverFinalHeaders ==
  /\ \A k \in DOMAIN forwarded :
       LET f == forwarded[k]
           req == reqs[f.req]
       IN /\ req.pc \in {"forwarded", "done", "failed"}
          /\ req.creds \in Credentials
          /\ CanHash(f.headers)
          /\ "authorization" \in DOMAIN f.headers
          /\ f.headers["authorization"] = AuthOver(f, req.creds)
  /\ \A r \in DOMAIN reqs :
       reqs[r].pc \in {"idle", "fetching"} =>
         /\ reqs[r].creds = NoCredentials
         /\ \A k \in DOMAIN forwarded : forwarded[k].req # r

\* A forwarded request whose caller had passed its own, older values of the
\* stamped headers and of Authorization.
C1_Witness ==
  \E k \in DOMAIN forwarded :
    /\ reqs[forwarded[k].req].headers = PreStamped
    /\ forwarded[k].headers["x-amz-date"] # PreStamped["x-amz-date"]
    /\ forwarded[k].headers["authorization"] # PreStamped["authorization"]

\* ------------------------------------------------------------------ C2

\* C2: the parts of parts_ are numbered 1..N in order, the part PUTs carry
\* the numbers 1..N in the order of dispatch, and every commit body lists
\* its parts in strictly ascending PartNumber order.
C2_PartNumbers ==
  /\ \A i \in DOMAIN parts : parts[i].partNumber_ = i
  /\ \A k \in DOMAIN Puts : Puts[k].partNumber = k
  /\ \A i \in Posts :
       \A a, b \in DOMAIN http[i].listing :
         a < b => http[i].listing[a].partNumber < http[i].listing[b].partNumber

\* A commit that lists two parts or more.
C2_Witness == \E i \in Posts : Len(http[i].listing) >= 2

\* ------------------------------------------------------------------ C3

\* C3: when a commit POST is issued no part PUT issued before it is still in
\* flight.
C3_CommitAfterParts ==
  \A i \in Posts :
    \A j \in 1..(i - 1) : http[j].method = "PUT" => http[j].state # "inflight"

\* A commit issued by a close that flushed a partial buffer as the final part.
C3_Witness ==
  \E i \in Posts : i > 1 /\ http[i - 1].method = "PUT" /\ http[i - 1].state = "done"

\* ------------------------------------------------------------------ C4

\* C4: once a part upload has failed no commit is sent for the upload, and
\* the close that waited for the part rejects with the part's error.
C4_NoCommitAfterFailedPart ==
  \A i \in DOMAIN http :
    (http[i].method = "PUT" /\ http[i].state = "failed") =>
      /\ \A j \in Posts : j < i
      /\ \E k \in DOMAIN results :
           /\ results[k].op = "end"
           /\ ~results[k].ok
           /\ results[k].err.req = i

\* ------------------------------------------------------------------ C5

\* C5: every failed call of a multipart upload is followed by an
\* AbortMultipartUpload request (DELETE ?uploadId=U).
C5_AbortOnFailure ==
  \A k \in DOMAIN results :
    ~results[k].ok => \E i \in DOMAIN http : http[i].method = "DELETE"

\* ------------------------------------------------------------------ C6

\* C6: at most one commit POST is issued per upload, and once a close has
\* returned no further request, part PUT or commit POST, is issued.
C6_OneCommit ==
  [][/\ Cardinality(Posts') <= 1
     /\ (\E k \in DOMAIN results : results[k].op = "end") => Len(http') = Len(http)]_vars

\* ------------------------------------------------------------------ C7

\* C7: a write of one byte or more that follows a close is rejected and
\* changes neither the buffer nor the part list.
C7_WriteAfterCloseRejected ==
  [][(/\ Len(results') = Len(results) + 1
      /\ results'[Len(results')].op = "write"
      /\ written' > written
      /\ \E j \in DOMAIN results : results[j].op = "end")
     => (/\ ~results'[Len(results')].ok
         /\ buffer' = buffer
         /\ parts' = parts)]_vars

\* ------------------------------------------------------------------ C8

\* C8: every write call returns: the nesting of write frames ends before the
\* stack does, whatever the size of the write and the space left.
C8_WriteTerminates == ~crashed

\* ------------------------------------------------------------------ C9

\* The part sizes of an upload of t bytes with parts of p bytes.
ExpectedSizes(t, p) ==
  [k \in 1..((t + p - 1) \div p) |-> IF k * p <= t THEN p ELSE t % p]

\* C9: the bytes written are cut into parts of BufferSize bytes: before the
\* close every full buffer has become a part, and once the close has sent
\* its commit the parts are floor(T/P) parts of P bytes and, when T mod P > 0,
\* one part of T mod P bytes.
C9_PartSizes ==
  LET sizes == [k \in DOMAIN Puts |-> Len(Puts[k].body)] IN
  /\ EndCalls = 0 =>
       /\ sizes = [k \in 1..(written \div BufferSize) |-> BufferSize]
       /\ Len(buffer) = written % BufferSize
  /\ (EndCalls = 1 /\ Posts # {} /\ written > 0) =>
       sizes = ExpectedSizes(written, BufferSize)

\* ------------------------------------------------------------------ C10

\* C10: every part but the last one submitted has exactly BufferSize bytes.
C10_NonFinalPartsFull ==
  \A k \in DOMAIN Puts : k < Len(Puts) => Len(Puts[k].body) = BufferSize

\* ------------------------------------------------------------------ C12

C13_StampedHeaders ==
  \A k \in DOMAIN forwarded :
    LET f == forwarded[k]
        req == reqs[f.req]
    IN /\ {"authorization", "x-amz-date", "x-amz-content-sha256",
            "amz-sdk-invocation-id", "amz-sdk-request"} \subseteq DOMAIN f.headers
       /\ f.headers["authorization"].credential[1] = req.creds.accessKey
       /\ f.headers["x-amz-date"] = dateStr(req.at)
       /\ f.headers["x-amz-content-sha256"] \in {EMPTY_STRING_SHA256, UNSIGNED_PAYLOAD}
       /\ f.headers["amz-sdk-invocation-id"] \in 1..uuids
       /\ \A j \in DOMAIN forwarded :
            j # k => forwarded[j].headers["amz-sdk-invocation-id"]
                       # f.headers["amz-sdk-invocation-id"]
       /\ f.headers["amz-sdk-request"] = "attempt=1"

\* Two forwarded requests: one whose caller had passed none of the five
\* headers, one whose caller had passed another amz-sdk-request.
C13_Witness ==
  /\ \E k \in DOMAIN forwarded : reqs[forwarded[k].req].headers = HostOnly
  /\ \E k \in DOMAIN forwarded :
       /\ reqs[forwarded[k].req].headers = PreStamped
       /\ PreStamped["amz-sdk-request"] = "attempt=9"
       /\ forwarded[k].headers["amz-sdk-request"] = "attempt=1"

\* ------------------------------------------------------------------ C14

\* C14: the x-amz-content-sha256 header of a forwarded request, the line of
\* that header in the signed canonical request and the payload line of the
\* signed canonical request are the same string: the empty-string SHA-256
\* when the body length is known to be zero, UNSIGNED-PAYLOAD when the body
\* length is unknown.
C14_ContentHash ==
  \A k \in DOMAIN forwarded :
    LET f == forwarded[k]
        canon == SignedCanonical(f)
        value == f.headers["x-amz-content-sha256"]
    IN /\ canon[7] = value
       /\ \E i \in DOMAIN canon[4] :
            canon[4][i][1] = "x-amz-content-sha256" /\ canon[4][i][3] = value
       /\ (f.body.known /\ f.body.n = 0) => value = EMPTY_STRING_SHA256
       /\ ~f.body.known => value = UNSIGNED_PAYLOAD

\* ------------------------------------------------------------------ C15

\* The hash threshold of the specification, scaled down.
HashBodyThreshold == 6

\* C15: a forwarded request whose body has a known length between 1 and the
\* hash threshold carries the hash of the body in x-amz-content-sha256, not
\* UNSIGNED-PAYLOAD.
C15_SmallBodyHashed ==
  \A k \in DOMAIN forwarded :
    LET f == forwarded[k] IN
    (f.body.known /\ f.body.n \in 1..HashBodyThreshold)
      => f.headers["x-amz-content-sha256"] # UNSIGNED_PAYLOAD

\* ------------------------------------------------------------------ C16

\* C16: a forwarded request carries the session token of its credentials in
\* x-amz-security-token when that token is not empty; when it is empty the
\* service adds no such header: the request has the header only if the
\* caller had passed it, with the caller's value.
C16_SecurityToken ==
  \A k \in DOMAIN forwarded :
    LET f == forwarded[k]
        req == reqs[f.req]
        name == "x-amz-security-token"
    IN IF req.creds.sessionToken # ""
       THEN name \in DOMAIN f.headers /\ f.headers[name] = req.creds.sessionToken
       ELSE /\ name \in DOMAIN f.headers <=> name \in DOMAIN req.headers
            /\ name \in DOMAIN f.headers => f.headers[name] = req.headers[name]

\* A request forwarded with the session token of its credentials, and one
\* forwarded without the header under credentials that have no token.
C16_Witness ==
  /\ \E k \in DOMAIN forwarded :
       /\ "x-amz-security-token" \notin DOMAIN reqs[forwarded[k].req].headers
       /\ reqs[forwarded[k].req].creds.sessionToken = "tok"
       /\ forwarded[k].headers["x-amz-security-token"] = "tok"
  /\ \E k \in DOMAIN forwarded :
       /\ reqs[forwarded[k].req].creds.sessionToken = ""
       /\ "x-amz-security-token" \notin DOMAIN forwarded[k].headers

\* ------------------------------------------------------------------ C17

\* C17: x-amz-security-token is among the header lines of the signed
\* canonical request and among the SignedHeaders of Authorization exactly
\* when the credentials have a session token.
C17_TokenSignedIff ==
  \A k \in DOMAIN forwarded :
    LET f == forwarded[k]
        req == reqs[f.req]
        name == "x-amz-security-token"
    IN req.creds.sessionToken # ""
         <=> /\ name \in Range(CanonicalNames(SignedCanonical(f)))
             /\ name \in Range(f.headers["authorization"].signedHeaders)

\* ------------------------------------------------------------------ C18

\* C18: a request whose caller passed no Host header is not rejected once
\* its credentials have arrived: it is forwarded with the host of its URL
\* as Host, and that header is signed.
C18_HostStamped ==
  \A r \in DOMAIN reqs :
    (reqs[r].creds \in Credentials /\ "host" \notin DOMAIN reqs[r].headers) =>
      /\ reqs[r].pc # "rejected"
      /\ \E k \in DOMAIN forwarded :
           /\ forwarded[k].req = r
           /\ "host" \in DOMAIN forwarded[k].headers
           /\ forwarded[k].headers["host"] = reqs[r].url.host
           /\ "host" \in Range(CanonicalNames(SignedCanonical(forwarded[k])))

\* ------------------------------------------------------------------ C19

\* C19: the SignedHeaders of Authorization are the names of the header lines
\* of the signed canonical request, in the same order; they are lowercase,
\* in strictly ascending byte order, and each is a header of the forwarded
\* request.
C19_SignedHeadersList ==
  \A k \in DOMAIN forwarded :
    LET f == forwarded[k]
        listed == f.headers["authorization"].signedHeaders
    IN /\ listed = CanonicalNames(SignedCanonical(f))
       /\ \A i \in DOMAIN listed :
            /\ listed[i] \in Range(SortedNames)
            /\ listed[i] \in DOMAIN f.headers
       /\ \A i, j \in DOMAIN listed : i < j => Rank(listed[i]) < Rank(listed[j])

\* A forwarded request that carries headers beyond the signed ones.
C19_Witness ==
  \E k \in DOMAIN forwarded :
    /\ Len(forwarded[k].headers["authorization"].signedHeaders) = 5
    /\ "x-amz-acl" \in DOMAIN forwarded[k].headers
    /\ "x-amz-security-token" \in DOMAIN forwarded[k].headers

\* ------------------------------------------------------------------ C20

\* C20: every x-amz- header the caller passed, other than the ones the
\* service stamps, is among the header lines of the signed canonical request
\* and among the SignedHeaders of Authorization.
C20_CallerAmzHeadersSigned ==
  \A k \in DOMAIN forwarded :
    LET f == forwarded[k]
        additional == (DOMAIN reqs[f.req].headers \cap AmzNames)
                        \ {"x-amz-content-sha256", "x-amz-date"}
    IN additional \subseteq
         (Range(CanonicalNames(SignedCanonical(f)))
            \cap Range(f.headers["authorization"].signedHeaders))

\* ------------------------------------------------------------------ C21

\* C21: once request has been called the caller's header map never changes,
\* whether the request is then forwarded, rejected or completed.
C21_CallerHeadersUnchanged ==
  [][\A r \in DOMAIN reqs :
       reqs[r].pc # "idle" => reqs'[r].headers = reqs[r].headers]_vars

\* A request forwarded with stamped headers and a request rejected after the
\* stamping, each with the headers its caller passed.
C21_Witness ==
  /\ \E k \in DOMAIN forwarded :
       /\ reqs[forwarded[k].req].headers = HostOnly
       /\ "authorization" \in DOMAIN forwarded[k].headers
  /\ \E r \in DOMAIN reqs :
       /\ reqs[r].pc = "rejected"
       /\ reqs[r].creds \in Credentials
       /\ reqs[r].headers = NoHost

\* ------------------------------------------------------------------ C22

\* C22: every request that was called has asked the provider once, and the
\* access key of Credential, the secret key the signature derives from and
\* the session token header of a forwarded request are those of the one
\* answer the request got, whatever the other requests got.
C22_OneCredentialsAnswer ==
  /\ \A r \in DOMAIN reqs : reqs[r].fetches = (IF reqs[r].pc = "idle" THEN 0 ELSE 1)
  /\ \A k \in DOMAIN forwarded :
       LET f == forwarded[k]
           creds == reqs[f.req].creds
       IN /\ creds \in Credentials
          /\ f.headers["authorization"].credential[1] = creds.accessKey
          /\ SignedSecret(f) = creds.secretKey
          /\ creds.sessionToken # "" =>
               f.headers["x-amz-security-token"] = creds.sessionToken

\* Two forwarded requests whose answers from the provider differ in access
\* key, secret key and session token.
C22_Witness ==
  \E j, k \in DOMAIN forwarded :
    /\ reqs[forwarded[j].req].creds.accessKey = "AK1"
    /\ reqs[forwarded[k].req].creds.accessKey = "AK2"
    /\ forwarded[k].headers["x-amz-security-token"] = "tok"

\* ------------------------------------------------------------------ C23

\* C23: a request whose provider failed, or answered with an empty access
\* key or an empty secret key, is rejected without a second call of the
\* provider, and nothing is forwarded for it.
C23_CredentialError ==
  \A r \in DOMAIN reqs :
    LET failed == reqs[r].pc = "rejected" /\ reqs[r].creds = NoCredentials
        empty == /\ reqs[r].creds # NoCredentials
                 /\ (reqs[r].creds.accessKey = "" \/ reqs[r].creds.secretKey = "")
    IN (failed \/ empty) =>
         /\ reqs[r].pc = "rejected"
         /\ reqs[r].fetches = 1
         /\ \A k \in DOMAIN forwarded : forwarded[k].req # r

\* ------------------------------------------------------------------ C24

\* C24: the query line of the signed canonical request holds the query
\* parameters of the URL, each as key=value, in ascending order of key,
\* whatever their order in the URL.
C24_CanonicalQuerySorted ==
  \A k \in DOMAIN forwarded :
    LET f == forwarded[k]
        line == SignedCanonical(f)[3]
    IN /\ Len(line) = Len(f.url.query)
       /\ Range(line) = {<<f.url.query[i].name, "=", f.url.query[i].value>> :
                           i \in DOMAIN f.url.query}
       /\ \A i, j \in DOMAIN line :
            i < j => QueryRank(line[i][1]) < QueryRank(line[j][1])

\* ------------------------------------------------------------------ C25

\* C25: the path line of the signed canonical request is "/" followed by the
\* segments of the URL path, each percent-encoded once, joined by "/".
C25_CanonicalUriEncoded ==
  \A k \in DOMAIN forwarded :
    LET f == forwarded[k] IN
    SignedCanonical(f)[2]
      = <<"/", [i \in DOMAIN f.url.path |-> PercentEncode(f.url.path[i])]>>

\* ------------------------------------------------------------------ C26

\* C26: the header block of the signed canonical request is one line
\* name:value for each of amz-sdk-invocation-id, amz-sdk-request, host,
\* x-amz-content-sha256 and x-amz-date, in that order, with the value the
\* forwarded request carries, followed by an empty line and the line of the
\* signed header names; a request that lacks one of them once it is stamped
\* is rejected and not forwarded.
C26_CanonicalHeaders ==
  /\ \A k \in DOMAIN forwarded :
       LET f == forwarded[k]
           canon == SignedCanonical(f)
           names == <<"amz-sdk-invocation-id", "amz-sdk-request", "host",
                      "x-amz-content-sha256", "x-amz-date">>
       IN /\ Len(canon) = 7
          /\ Len(canon[4]) = Len(names)
          /\ \A i \in DOMAIN names :
               /\ Len(canon[4][i]) = 3
               /\ canon[4][i][1] = names[i]
               /\ canon[4][i][2] = ":"
               /\ canon[4][i][3] = f.headers[names[i]]
          /\ canon[5] = ""
          /\ canon[6] = f.headers["authorization"].signedHeaders
  /\ \A r \in DOMAIN reqs :
       (reqs[r].creds \in Credentials /\ "host" \notin DOMAIN reqs[r].headers) =>
         /\ reqs[r].pc = "rejected"
         /\ \A k \in DOMAIN forwarded : forwarded[k].req # r

\* A request signed over its five header lines, and a request without Host
\* rejected once its credentials had arrived.
C26_Witness ==
  /\ \E k \in DOMAIN forwarded : Len(SignedCanonical(forwarded[k])[4]) = 5
  /\ \E r \in DOMAIN reqs :
       /\ reqs[r].pc = "rejected"
       /\ reqs[r].creds \in Credentials
       /\ "host" \notin DOMAIN reqs[r].headers

\* ------------------------------------------------------------------ C27

\* C27: the string to sign of a forwarded request is four lines: the
\* algorithm, the date of x-amz-date, the day of that date followed by
\* /region/service/aws4_request, and the hash of the canonical request of
\* the forwarded request.
C27_StringToSign ==
  \A k \in DOMAIN forwarded :
    LET f == forwarded[k]
        date == f.headers["x-amz-date"]
    IN SignedString(f)
         = <<"AWS4-HMAC-SHA256",
             date,
             <<date.day, <<"/", region_, "/", service_, "/aws4_request">>>>,
             encodeHex(Sha256(CanonicalRequest(f.method, f.url, f.headers)))>>

\* A request forwarded on the second day of the clock.
C27_Witness ==
  \E k \in DOMAIN forwarded :
    /\ forwarded[k].headers["x-amz-date"].day = 1
    /\ SignedString(forwarded[k])[3][1] = 1

\* ------------------------------------------------------------------ C28

\* C28: the signing key of a forwarded request is the chain of HMACs of the
\* day, the region, the service and "aws4_request", in that order, started
\* from "AWS4" and the secret key of the credentials; the signature is the
\* hex of the HMAC of the string to sign under that key; two forwarded
\* requests have the same signing key exactly when their secret keys and
\* their days are the same.
C28_SigningKey ==
  /\ \A k \in DOMAIN forwarded :
       LET f == forwarded[k]
           creds == reqs[f.req].creds
           kDate == Hmac(<<"AWS4", creds.secretKey>>, f.headers["x-amz-date"].day)
           kRegion == Hmac(kDate, region_)
           kService == Hmac(kRegion, service_)
           kSigning == Hmac(kService, "aws4_request")
       IN /\ SigningKey(f) = kSigning
          /\ f.headers["authorization"].signature
               = encodeHex(Hmac(kSigning, SignedString(f)))
  /\ \A j, k \in DOMAIN forwarded :
       SigningKey(forwarded[j]) = SigningKey(forwarded[k])
         <=> /\ reqs[forwarded[j].req].creds.secretKey
                  = reqs[forwarded[k].req].creds.secretKey
             /\ forwarded[j].headers["x-amz-date"].day
                  = forwarded[k].headers["x-amz-date"].day

\* Two requests forwarded on the same day under the same secret key, with
\* the same signing key and different signatures.
C28_Witness ==
  \E j, k \in DOMAIN forwarded :
    /\ j # k
    /\ reqs[forwarded[j].req].creds.secretKey = "SK1"
    /\ reqs[forwarded[k].req].creds.secretKey = "SK1"
    /\ SigningKey(forwarded[j]) = SigningKey(forwarded[k])
    /\ forwarded[j].headers["authorization"].signature
         # forwarded[k].headers["authorization"].signature

\* ------------------------------------------------------------------ C29

\* C29: a request that was answered 403 RequestTimeTooSkewed has been
\* forwarded a second time, with another x-amz-date, and not a third time.
C29_SkewRetry ==
  \A r \in DOMAIN reqs :
    reqs[r].status = 403 =>
      LET attempts == {k \in DOMAIN forwarded : forwarded[k].req = r} IN
      /\ Cardinality(attempts) = 2
      /\ \A j, k \in attempts :
           j # k => forwarded[j].headers["x-amz-date"] # forwarded[k].headers["x-amz-date"]

\* ------------------------------------------------------------------ C30

\* C30: any two forwarded requests, stamped in the same second or not,
\* carry different amz-sdk-invocation-id values, and carry the same
\* Authorization only if they carry the same x-amz-date.
C30_DistinctInvocations ==
  \A j, k \in DOMAIN forwarded :
    j # k =>
      /\ forwarded[j].headers["amz-sdk-invocation-id"]
           # forwarded[k].headers["amz-sdk-invocation-id"]
      /\ forwarded[j].headers["authorization"] = forwarded[k].headers["authorization"]
           => forwarded[j].headers["x-amz-date"] = forwarded[k].headers["x-amz-date"]

\* Two requests of the same call, stamped in the same second under the same
\* credentials, both forwarded.
C30_Witness ==
  \E j, k \in DOMAIN forwarded :
    /\ j # k
    /\ forwarded[j].method = forwarded[k].method
    /\ forwarded[j].url = forwarded[k].url
    /\ reqs[forwarded[j].req].headers = reqs[forwarded[k].req].headers
    /\ reqs[forwarded[j].req].creds = reqs[forwarded[k].req].creds
    /\ forwarded[j].headers["x-amz-date"] = forwarded[k].headers["x-amz-date"]
    /\ forwarded[j].headers["authorization"] # forwarded[k].headers["authorization"]

\* ------------------------------------------------------------------ C31

\* The headers request forwards for one call handled alone: a function of
\* the call, the credentials answered, the clock reading and the id drawn.
HandledAlone(c, creds, t, id) ==
  LET ds == dateStr(t)
      headers == Stamp(c.headers, id, ds, ContentHash(c.body), creds.sessionToken)
  IN SetHeader(headers, "authorization",
               AuthTxt(creds.accessKey, ds,
                       Signature(creds.secretKey, ds, hashRequest(c.method, c.url, headers))))

\* C31: whatever the interleaving of the credential answers and downstream
\* completions of the concurrent calls, the headers (Authorization with
\* them) forwarded for a call are those of the same call handled alone with
\* the same credentials, clock reading and id, and they stay so whatever the
\* other call does afterwards.
C31_Isolation ==
  \A k \in DOMAIN forwarded :
    LET f == forwarded[k]
        req == reqs[f.req]
    IN /\ "amz-sdk-invocation-id" \in DOMAIN f.headers
       /\ f.headers = HandledAlone(req, req.creds, req.at, f.headers["amz-sdk-invocation-id"])

\* Two calls in flight together, answered in the reverse order of the calls,
\* with different credentials and at different times, one of them completed
\* downstream.
C31_Witness ==
  /\ Len(forwarded) = 2
  /\ forwarded[1].req = 2
  /\ forwarded[2].req = 1
  /\ reqs[1].creds # reqs[2].creds
  /\ reqs[1].at # reqs[2].at
  /\ reqs[2].pc = "done"

\* ------------------------------------------------------------------ C32

\* C32: a request that was signed is passed to the downstream service once,
\* with the method, the URL and the body of the caller; the request
\* completes when the downstream service has written its response to the
\* caller's sink and fails when the downstream request fails; a request that
\* was not signed is not passed on.
C32_ForwardedOnce ==
  \A r \in DOMAIN reqs :
    LET req == reqs[r]
        sent == {k \in DOMAIN forwarded : forwarded[k].req = r}
    IN IF req.pc \in {"forwarded", "done", "failed"}
       THEN /\ Cardinality(sent) = 1
            /\ \A k \in sent :
                 /\ forwarded[k].method = req.method
                 /\ forwarded[k].url = req.url
                 /\ forwarded[k].body = req.body
            /\ req.pc = "done" => req.status \in DownstreamReplies \ {0}
            /\ req.pc = "failed" => req.status = 0
            /\ req.pc = "forwarded" => req.status = 0
       ELSE sent = {}

\* A PUT with a body that was passed on and answered, and a request whose
\* downstream request failed.
C32_Witness ==
  \E r, q \in DOMAIN reqs :
    /\ reqs[r].pc = "done"
    /\ reqs[r].method = "PUT"
    /\ reqs[r].body = KnownLength(5)
    /\ reqs[r].status # 0
    /\ reqs[q].pc = "failed"

\* ------------------------------------------------------------------ C38

\* C38: in every forwarded request the day in the Credential of
\* Authorization, the day in the scope line of the string to sign, the day
\* the signing key was derived from and the day of x-amz-date are the same,
\* the day of the one clock reading made when the credentials arrived.
C38_OneDate ==
  \A k \in DOMAIN forwarded :
    LET f == forwarded[k]
        day == Ymd(dateStr(reqs[f.req].at))
    IN /\ Ymd(f.headers["x-amz-date"]) = day
       /\ f.headers["authorization"].credential[2] = day
       /\ SignedString(f)[3][1] = day
       /\ SigningKey(f)[2][2][2][3] = day
       /\ SignedString(f)[2] = f.headers["x-amz-date"]

\* The first request the service signs, called on the day the clock started
\* and signed on a later day.
C38_Witness ==
  /\ \E k \in DOMAIN forwarded :
       /\ Ymd(forwarded[k].headers["x-amz-date"]) > 0
       /\ forwarded[k].headers["amz-sdk-invocation-id"] = 1
  /\ uuids = 1

\* ------------------------------------------------------------------ C39

\* The headers the service sets on every request.
OwnHeaders ==
  {"authorization", "x-amz-date", "x-amz-content-sha256", "amz-sdk-invocation-id",
   "amz-sdk-request"}

\* C39: in a forwarded request none of authorization, x-amz-date,
\* x-amz-content-sha256, amz-sdk-invocation-id and amz-sdk-request holds the
\* value the caller passed for it, and the canonical request that was signed
\* holds, for each of these that is signed, the value that is forwarded.
C39_CallerValuesReplaced ==
  \A k \in DOMAIN forwarded :
    LET f == forwarded[k]
        caller == reqs[f.req].headers
        lines == SignedCanonical(f)[4]
    IN /\ \A n \in OwnHeaders :
            /\ n \in DOMAIN f.headers
            /\ n \in DOMAIN caller => f.headers[n] # caller[n]
       /\ "authorization" \in DOMAIN f.headers =>
            \A i \in DOMAIN lines :
              lines[i][1] \in OwnHeaders => lines[i][3] = f.headers[lines[i][1]]

\* A forwarded request whose caller had passed a value for each of the five.
C39_Witness ==
  \E k \in DOMAIN forwarded :
    /\ OwnHeaders \subseteq DOMAIN reqs[forwarded[k].req].headers
    /\ reqs[forwarded[k].req].headers["amz-sdk-request"] = "attempt=9"

\* ------------------------------------------------------------------ C33

\* C33: when the response to a commit POST arrives, the close returns; if
\* the body has an Error element the close fails and returns no ETag,
\* whatever else the body holds, and its error holds the Code and the
\* Message of the Error when it has both; if the body has no
\* CompleteMultipartUploadResult with an ETag the close fails as well.
C33_CommitError ==
  [][\A i \in Posts :
       (http[i].state = "inflight" /\ http'[i].state # "inflight") =>
         LET body == http'[i].reply
             res == results'[Len(results')]
         IN /\ Len(results') = Len(results) + 1
            /\ res.op = "end"
            /\ body.error =>
                 /\ ~res.ok
                 /\ res.etag = NoETag
                 /\ (body.code # "" /\ body.message # "") =>
                      (res.err.code = body.code /\ res.err.message = body.message)
            /\ (~body.result \/ body.etag = NoETag) => (~res.ok /\ res.etag = NoETag)
            /\ res.ok => res.etag = body.etag]_vars

\* A close that failed with the Code and the Message of an Error that came
\* in one body with a CompleteMultipartUploadResult and its ETag.
C33_Witness ==
  \E i \in Posts, k \in DOMAIN results :
    /\ http[i].state = "failed"
    /\ http[i].reply.error
    /\ http[i].reply.result
    /\ http[i].reply.etag = "e1"
    /\ results[k].op = "end"
    /\ ~results[k].ok
    /\ results[k].err = S3Error("InternalError", "retry", i)

\* ------------------------------------------------------------------ C34

\* C34: the stream exists only when the response to the POST ...?uploads had
\* no Error and had an InitiateMultipartUploadResult with an UploadId, which
\* the stream holds; every other response, and a failed request, makes
\* multipart reject; without a stream no call is made and no request is
\* sent; every part PUT and every commit POST carries the UploadId of the
\* response.
C34_UploadId ==
  /\ upload.state = "open" =>
       /\ ~upload.reply.error
       /\ upload.reply.result
       /\ upload.reply.uploadId # ""
       /\ upload.uploadId_ = upload.reply.uploadId
  /\ upload.state = "rejected" => upload.err # NoError
  /\ upload.state # "open" => (http = <<>> /\ results = <<>> /\ call = NoCall)
  /\ \A i \in DOMAIN http : http[i].uploadId = upload.reply.uploadId

\* A stream made with the second of the upload ids, which has sent a part
\* and a commit.
C34_Witness ==
  /\ upload.state = "open"
  /\ upload.uploadId_ = "u2"
  /\ \E i, j \in DOMAIN http :
       /\ http[i].method = "PUT"
       /\ http[j].method = "POST"
       /\ http[i].uploadId = "u2"
       /\ http[j].uploadId = "u2"

\* ------------------------------------------------------------------ C35

\* The bodies of a sequence of requests, one after the other.
RECURSIVE Concat(_)
Concat(requests) ==
  IF Len(requests) = 0 THEN <<>> ELSE requests[1].body \o Concat(Tail(requests))

\* The bytes the writer has passed so far, in the order of writing.
Written == [i \in 1..written |-> i]

\* C35: the bytes passed to the write calls are, in their order, the bodies
\* of the parts in the order of the part numbers followed by the buffer, and
\* once the close has sent its commit they are the bodies of the parts,
\* whether a write was made with one array or with a vector of pieces.
C35_BytesPreserved ==
  /\ EndCalls = 0 => Concat(Puts) \o buffer = Written
  /\ (EndCalls = 1 /\ Posts # {}) => Concat(Puts) = Written

\* ------------------------------------------------------------------ C36

\* C36: every part that a commit body lists has an ETag, the one that the
\* response to the PUT of that part carried; a part whose PUT failed or was
\* answered without an ETag is in no commit body.
C36_CommitETags ==
  \A i \in Posts :
    \A a \in DOMAIN http[i].listing :
      /\ http[i].listing[a].etag # NoETag
      /\ \E j \in 1..(i - 1) :
           /\ http[j].method = "PUT"
           /\ http[j].partNumber = http[i].listing[a].partNumber
           /\ http[j].state = "done"
           /\ http[j].etag = http[i].listing[a].etag

\* ------------------------------------------------------------------ C37

\* C37: the buffer is never full, so that every write finds at least one
\* free byte in it, and a write of no bytes, as an empty array or as a
\* vector of empty pieces, changes neither the buffer nor the part list and
\* sends nothing.
C37_BufferNeverFull ==
  [][/\ BufferSize - Len(buffer) >= 1
     /\ BufferSize - Len(buffer') >= 1
     /\ (/\ Len(results') = Len(results) + 1
         /\ results'[Len(results')].op = "write"
         /\ written' = written)
        => (buffer' = buffer /\ parts' = parts /\ http' = http)]_vars

\* Two writes have returned, one of one byte and one of no bytes, and the
\* buffer holds the byte.
C37_Witness ==
  /\ Len(results) = 2
  /\ \A k \in DOMAIN results : results[k].op = "write" /\ results[k].ok
  /\ written = 1
  /\ buffer = <<1>>

\* ------------------------------------------------------------------ C40

\* The writer's last call is a close, pending or returned.
LastCallIsEnd ==
  \/ call.op = "end"
  \/ call.op = "none" /\ results # <<>> /\ results[Len(results)].op = "end"

\* C40: the close of an upload to which no byte was written sends no part
\* PUT and one commit POST, whose part list is empty; the close of an upload
\* to which 0 < n < BufferSize bytes were written sends one part PUT, with
\* the n bytes, and, once that PUT is answered with an ETag, one commit POST
\* that lists the part.
C40_FinalPart ==
  (EndCalls = 1 /\ LastCallIsEnd) =>
    /\ written = 0 =>
         /\ Len(Puts) = 0
         /\ Len(http) = 1
         /\ http[1].method = "POST"
         /\ http[1].listing = <<>>
    /\ (0 < written /\ written < BufferSize) =>
         /\ Len(Puts) = 1
         /\ http[1].method = "PUT"
         /\ http[1].body = [i \in 1..written |-> i]
         /\ IF http[1].state = "done"
            THEN /\ Len(http) = 2
                 /\ http[2].method = "POST"
                 /\ http[2].listing = <<[partNumber |-> 1, etag |-> http[1].etag]>>
            ELSE Len(http) = 1

\* A close that has returned the ETag of the object after it had sent the
\* two bytes written as the one part of the upload.
C40_Witness ==
  /\ EndCalls = 1
  /\ LastCallIsEnd
  /\ written = 2
  /\ Len(http) = 2
  /\ http[1].body = <<1, 2>>
  /\ \E k \in DOMAIN results : results[k].op = "end" /\ results[k].ok

====
